---- MODULE Spec2Model ----
(***************************************************************************)
(* Voice-interaction orchestration engine of SkyNet.                       *)
(*                                                                         *)
(*   Spec     the orchestrator (SkynetAssistant) driven by one websocket   *)
(*            client and the listening-loop tasks it creates, on one       *)
(*            asyncio event loop: an action is the code one task runs      *)
(*            between two suspension points (awaits that can yield).       *)
(*   SpecNotify  Spec with collaborators that always answer, observers     *)
(*            that may not.                                                *)
(*   SpecSeg  one capture cycle of SpeechToText._record_audio, frame by    *)
(*            frame, with its exact counters and thresholds.               *)
(*   SpecCmd  SystemController.execute_smart_command and run_command on    *)
(*            command strings.                                             *)
(*   SpecParse  OllamaClient.parse_response_with_actions on replies.       *)
(*   SpecTurn   the steps of one turn of process_input and what each is    *)
(*              given.                                                     *)
(*   SpecAct    SystemController.execute_action on one action.             *)
(*   SpecCast   ConnectionManager.broadcast run by concurrent tasks.       *)
(*   SpecStart  the start_listening tasks the start and stop commands      *)
(*              leave running.                                             *)
(*   SpecLoop   the iterations of start_listening on the event loop, with  *)
(*              capture attempts that fail; SpecLoopFair adds fairness.    *)
(***************************************************************************)
EXTENDS Integers, Sequences, FiniteSets, TLC

VARIABLES
    current_state,    \* SkynetAssistant.current_state
    is_listening,     \* SkynetAssistant.is_listening
    is_speaking,      \* SkynetAssistant.is_speaking
    is_processing,    \* SkynetAssistant.is_processing
    pc,               \* per task: the await it is suspended at
    ticker,           \* per task: the animation task of its speak() call
    exc,              \* per task: exception pending in its turn
    in_except,        \* per task: speak() was called from the except handler
    speech_started,  \* per loop task: _record_audio's speech_detected
    trace,            \* per task: state names its turn has emitted so far
    stopped,          \* a stop_listening has returned, no start since
    \* SpeechToText._record_audio, one capture cycle
    chunks,               \* frames kept so far, each by its volume
    silence_chunks,
    speech_detected,
    waiting_chunks,
    seg_result,           \* "recording", or what the cycle returned
    frames,               \* frames acquired in this cycle
    volume_signals,       \* on_volume_change calls in this cycle
    speech_start_signals, \* on_speech_start calls in this cycle
    speech_end_signals,   \* on_speech_end calls in this cycle
    loudest,              \* largest volume among the frames of this cycle
    \* SystemController.execute_smart_command or run_command, one call
    command,              \* the command string, a sequence of characters
    safe_mode,            \* the denylist is consulted in this call
    cmd_result,           \* "idle" before the call, then the kind of result
    blocked_by,           \* the pattern the denial message names
    os_invoked,           \* subprocess.run was called with the command
    \* OllamaClient.parse_response_with_actions, one call
    response,             \* the reply text, a sequence of tokens
    result_actions,       \* result['actions'], the tokens of the JSON value
    result_message,       \* result['message'], a sequence of tokens
    parse_pc,             \* "idle" before the call, "parsed" after it
    parts,                \* the pieces the reply was written from
    \* SkynetAssistant.process_input, the steps of one turn
    turn_pc,              \* the step the turn is at
    user_text,            \* `text`, a sequence of characters
    steps,                \* the collaborators called so far, in order
    turn_response,        \* `response`: handler result or model reply
    conversation_history, \* messages this turn appended to the memory
    messages,             \* message events sent to the observer
    spoken,               \* texts handed to tts.speak
    failed,               \* the except handler was entered
    \* SystemController.execute_action, one call
    act_pc,               \* where the call is
    action_type,          \* action.get('type', '')
    action_param,         \* the parameter of the action: its state
    act_result,           \* the kind of what the call gave
    capability_failed,    \* the capability could not do what was asked
    \* ConnectionManager.broadcast, run by the tasks that emit events
    cast,                 \* the events emitted and each broadcast's position
    \* SkynetAssistant.start_listening, iteration by iteration
    ll,                   \* the listening loop and who holds the event loop
    \* the tasks created for start_listening commands
    listeners             \* is_listening and where each created task is

orchVars == <<current_state, is_listening, is_speaking, is_processing, pc,
              ticker, exc, in_except, speech_started, trace,
              stopped>>

segVars == <<chunks, silence_chunks, speech_detected, waiting_chunks,
             seg_result, frames, volume_signals, speech_start_signals,
             speech_end_signals, loudest>>

cmdVars == <<command, safe_mode, cmd_result, blocked_by, os_invoked>>

parseVars == <<response, result_actions, result_message, parse_pc, parts>>

turnVars == <<turn_pc, user_text, steps, turn_response,
              conversation_history, messages,
              spoken, failed>>

actVars == <<act_pc, action_type, action_param, act_result,
             capability_failed>>

castVars == <<cast>>

loopVars == <<ll>>

startVars == <<listeners>>

vars == <<orchVars, segVars, cmdVars, parseVars, turnVars, actVars,
          castVars, loopVars, startVars>>

\* what the steps of one part leave alone: the variables of the others
notOrch  == <<segVars, cmdVars, parseVars, turnVars, actVars, castVars,
              loopVars, startVars>>
notSeg   == <<orchVars, cmdVars, parseVars, turnVars, actVars, castVars,
              loopVars, startVars>>
notCmd   == <<orchVars, segVars, parseVars, turnVars, actVars, castVars,
              loopVars, startVars>>
notParse == <<orchVars, segVars, cmdVars, turnVars, actVars, castVars,
              loopVars, startVars>>
notTurn  == <<is_listening, is_speaking, pc, ticker, exc, in_except,
              speech_started, stopped, segVars, cmdVars, parseVars, actVars,
              castVars, loopVars, startVars>>
notAct   == <<orchVars, segVars, cmdVars, parseVars, turnVars, castVars,
              loopVars, startVars>>
notCast  == <<orchVars, segVars, cmdVars, parseVars, turnVars, actVars,
              loopVars, startVars>>
notLoop  == <<orchVars, segVars, cmdVars, parseVars, turnVars, actVars,
              castVars, startVars>>
notStart == <<orchVars, segVars, cmdVars, parseVars, turnVars, actVars,
              castVars, loopVars>>

(***************************************************************************)
(* Bounds.                                                                 *)
(***************************************************************************)
MaxLoops == 1

Client == 0
Loops  == 1..MaxLoops
Tasks  == {Client} \cup Loops

States == {"idle", "listening", "thinking", "speaking"}

TurnPcs  == {"pi_think_cb", "pi_ai", "pi_msg_cb", "pi_err_cb", "sp_cb",
             "sp_tts", "sp_join", "pi_fin_cb"}
SpeakPcs == {"sp_tts", "sp_join"}
CapturePcs == {"cap_vol", "cap_sleep", "cap_end_cb"}

(***************************************************************************)
(* Helpers of the orchestrator.                                            *)
(***************************************************************************)

\* process_input's finally: "listening" if self.is_listening else "idle"
FinalState(listening) == IF listening THEN "listening" ELSE "idle"

\* state_callback(name, ...) called by task t's turn: the names, in order,
\* kept for the turns of the listening tasks (those that start from a
\* captured utterance)
Emit(t, name) ==
    trace' = [trace EXCEPT ![t] = IF t \in Loops THEN Append(@, name) ELSE @]

\* state_callback("speaking", {"particle_mode": mode}) called by the ticker;
\* the trace keeps a feedback event unless its two latest entries are
\* already speaking events
EmitFeedback(t) ==
    trace' = [trace EXCEPT ![t] =
                 IF \/ t \notin Loops
                    \/ /\ Len(@) >= 2
                       /\ @[Len(@)] = "speaking"
                       /\ @[Len(@) - 1] = "speaking"
                    THEN @
                    ELSE Append(@, "speaking")]

\* update_state: assign current_state, then notify the observer
update_state(t, state) ==
    /\ current_state' = state
    /\ Emit(t, state)

\* speak's finally without animation_task.cancel()
C33_Mut_CancelTicker(tk) == tk

\* animation_task.cancel() in speak's finally
CancelTicker(tk) ==
    CASE tk = "created"  -> "cancel_created"
      [] tk = "sleeping" -> "cancel_sleeping"
      [] OTHER           -> tk

\* `await animation_task` resumes once the ticker task has terminated
TickerJoined(tk) == tk \in {"done", "cancelled"}


\* speak without the `except asyncio.CancelledError: pass`
C6_Mut_SwallowCancel(tk, e) == IF tk = "cancelled" THEN "cancelled" ELSE e

\* speak's `try: await animation_task / except CancelledError: pass`:
\* what leaves speak() is the exception of tts.speak, if any
SwallowCancel(tk, e) == e

OrchInit ==
    /\ current_state = "idle"
    /\ is_listening = FALSE
    /\ is_speaking = FALSE
    /\ is_processing = FALSE
    /\ pc = [t \in Tasks |-> IF t = Client THEN "recv" ELSE "none"]
    /\ ticker = [t \in Tasks |-> "none"]
    /\ exc = [t \in Tasks |-> "none"]
    /\ in_except = [t \in Tasks |-> FALSE]
    /\ speech_started = [t \in Tasks |-> FALSE]
    /\ trace = [t \in Tasks |-> <<>>]
    /\ stopped = FALSE

(***************************************************************************)
(* process_input and speak, run by task t (a client or a listening loop).  *)
(***************************************************************************)


\* process_input relying on the thinking state a caller may have set
C2_Mut_ProcessInputEnter(t) ==
    /\ pc' = [pc EXCEPT ![t] = "pi_think_cb"]
    /\ UNCHANGED <<current_state, trace>>

\* process_input up to its first await: update_state("thinking")
ProcessInputEnter(t) ==
    /\ update_state(t, "thinking")
    /\ pc' = [pc EXCEPT ![t] = "pi_think_cb"]

\* is_processing = True; memory.add_message; history; check_system_command;
\* then either the model call is awaited, or the reply is stored and sent
PI_Begin(t) ==
    /\ pc[t] = "pi_think_cb"
    /\ is_processing' = TRUE
    /\ \E path \in {"model", "command", "raise"} :
          pc' = [pc EXCEPT ![t] = CASE path = "model"   -> "pi_ai"
                                    [] path = "command" -> "pi_msg_cb"
                                    [] path = "raise"   -> "pi_err_cb"]
    /\ UNCHANGED <<current_state, is_listening, is_speaking, ticker,
                   exc, in_except, speech_started, trace, stopped>>
    /\ UNCHANGED notOrch

\* ai.generate_response returns or raises; the reply is stored
\* (memory.add_message may raise) and sent as a message event
PI_Model(t) ==
    /\ pc[t] = "pi_ai"
    /\ \E ok \in BOOLEAN :
          pc' = [pc EXCEPT ![t] = IF ok THEN "pi_msg_cb" ELSE "pi_err_cb"]
    /\ UNCHANGED <<current_state, is_listening, is_speaking, is_processing,
                   ticker, exc, in_except, speech_started,
                   trace, stopped>>
    /\ UNCHANGED notOrch

\* speak() up to its first await: is_speaking = True; update_state("speaking")
PI_Speak(t) ==
    /\ pc[t] \in {"pi_msg_cb", "pi_err_cb"}
    /\ is_speaking' = TRUE
    /\ update_state(t, "speaking")
    /\ in_except' = [in_except EXCEPT ![t] = (pc[t] = "pi_err_cb")]
    /\ pc' = [pc EXCEPT ![t] = "sp_cb"]
    /\ UNCHANGED <<is_listening, is_processing, ticker, exc,
                   speech_started, stopped>>
    /\ UNCHANGED notOrch

\* asyncio.create_task(_animate_particles_while_speaking()); await tts.speak
Speak_Start(t) ==
    /\ pc[t] = "sp_cb"
    /\ ticker' = [ticker EXCEPT ![t] = "created"]
    /\ pc' = [pc EXCEPT ![t] = "sp_tts"]
    /\ UNCHANGED <<current_state, is_listening, is_speaking, is_processing,
                   exc, in_except, speech_started, trace, stopped>>
    /\ UNCHANGED notOrch

\* tts.speak completes, raises, or the awaiting task is cancelled; then
\* speak's finally: is_speaking = False; animation_task.cancel()
Speak_TtsDone(t) ==
    /\ pc[t] = "sp_tts"
    /\ \E outcome \in {"none", "error", "cancelled"} :
          exc' = [exc EXCEPT ![t] = outcome]
    /\ is_speaking' = FALSE
    /\ ticker' = [ticker EXCEPT ![t] = CancelTicker(@)]
    /\ pc' = [pc EXCEPT ![t] = "sp_join"]
    /\ UNCHANGED <<current_state, is_listening, is_processing,
                   in_except, speech_started, trace, stopped>>
    /\ UNCHANGED notOrch

\* one iteration of _animate_particles_while_speaking
Ticker_Run(t) ==
    /\ ticker[t] \in {"created", "sleeping"}
    /\ IF is_speaking
          THEN /\ EmitFeedback(t)
               /\ ticker' = [ticker EXCEPT ![t] = "sleeping"]
          ELSE /\ ticker' = [ticker EXCEPT ![t] = "done"]
               /\ UNCHANGED trace
    /\ UNCHANGED <<current_state, is_listening, is_speaking, is_processing,
                   pc, exc, in_except, speech_started, stopped>>
    /\ UNCHANGED notOrch

\* the cancellation reaches the ticker: a task that never started ends
\* cancelled; one suspended in its loop catches CancelledError and returns
Ticker_Cancelled(t) ==
    /\ ticker[t] \in {"cancel_created", "cancel_sleeping"}
    /\ ticker' = [ticker EXCEPT ![t] =
                     IF @ = "cancel_created" THEN "cancelled" ELSE "done"]
    /\ UNCHANGED <<current_state, is_listening, is_speaking, is_processing,
                   pc, exc, in_except, speech_started, trace,
                   stopped>>
    /\ UNCHANGED notOrch

\* process_input's except handler: send_message(error_msg, "error")
PI_Except(t) ==
    /\ pc' = [pc EXCEPT ![t] = "pi_err_cb"]
    /\ exc' = [exc EXCEPT ![t] = "none"]
    /\ UNCHANGED <<current_state, is_processing, trace>>


\* the final state update written at the end of the try block instead of
\* in a finally: skipped when an exception is pending
C1_Mut_PI_Finally(t, raised) ==
    /\ is_processing' = FALSE
    /\ IF raised = "none"
          THEN update_state(t, FinalState(is_listening))
          ELSE UNCHANGED <<current_state, trace>>
    /\ pc' = [pc EXCEPT ![t] = "pi_fin_cb"]
    /\ exc' = [exc EXCEPT ![t] = raised]

\* process_input's finally: is_processing = False; update_state(...)
PI_Finally(t, raised) ==
    /\ is_processing' = FALSE
    /\ update_state(t, FinalState(is_listening))
    /\ pc' = [pc EXCEPT ![t] = "pi_fin_cb"]
    /\ exc' = [exc EXCEPT ![t] = raised]

\* `await animation_task` returns; speak() returns or raises into
\* process_input, which runs its except handler or its finally
Speak_Join(t) ==
    /\ pc[t] = "sp_join"
    /\ TickerJoined(ticker[t])
    /\ ticker' = [ticker EXCEPT ![t] = "none"]
    /\ LET raised == SwallowCancel(ticker[t], exc[t])
       IN  IF raised = "error" /\ ~in_except[t]
              THEN PI_Except(t)
              ELSE PI_Finally(t, raised)
    /\ UNCHANGED <<is_listening, is_speaking, in_except, speech_started,
                   stopped>>
    /\ UNCHANGED notOrch

\* process_input returns or raises to its caller: start_listening catches
\* Exception and loops; the websocket endpoint disconnects on Exception;
\* CancelledError ends the task
PI_Return(t) ==
    /\ pc[t] = "pi_fin_cb"
    /\ pc' = [pc EXCEPT ![t] =
                 IF t = Client
                    THEN (IF exc[t] = "none" THEN "recv" ELSE "closed")
                    ELSE (IF exc[t] = "cancelled" THEN "none" ELSE "check")]
    /\ exc' = [exc EXCEPT ![t] = "none"]
    /\ in_except' = [in_except EXCEPT ![t] = FALSE]
    /\ trace' = [trace EXCEPT ![t] = <<>>]
    /\ UNCHANGED <<current_state, is_listening, is_speaking, is_processing,
                   ticker, speech_started, stopped>>
    /\ UNCHANGED notOrch

(***************************************************************************)
(* The websocket client task: handle_client_message.                       *)
(***************************************************************************)

\* {"type": "message"}: process_text_input; blank text returns at once
C_Text(c) ==
    /\ pc[c] = "recv"
    /\ \E blank \in BOOLEAN :
          IF blank
             THEN UNCHANGED <<current_state, pc, trace>>
             ELSE ProcessInputEnter(c)
    /\ UNCHANGED <<is_listening, is_speaking, is_processing, ticker,
                   exc, in_except, speech_started, stopped>>
    /\ UNCHANGED notOrch

\* {"action": "start_listening"}: asyncio.create_task(start_listening())
C_Start(c) ==
    /\ pc[c] = "recv"
    /\ \E l \in Loops :
          /\ pc[l] = "none"
          /\ \A k \in Loops : pc[k] = "none" => l <= k
          /\ pc' = [pc EXCEPT ![l] = "created"]
    /\ stopped' = FALSE
    /\ UNCHANGED <<current_state, is_listening, is_speaking, is_processing,
                   ticker, exc, in_except, speech_started,
                   trace>>
    /\ UNCHANGED notOrch


\* stop_listening that clears the flag and forgets update_state("idle")
C7_Mut_C_Stop(c) ==
    /\ pc[c] = "recv"
    /\ is_listening' = FALSE
    /\ pc' = [pc EXCEPT ![c] = "stop_cb"]
    /\ UNCHANGED <<current_state, is_speaking, is_processing, ticker, exc,
                   in_except, speech_started, trace, stopped>>
    /\ UNCHANGED notOrch

\* {"action": "stop_listening"}: stop_listening up to its await
C_Stop(c) ==
    /\ pc[c] = "recv"
    /\ is_listening' = FALSE
    /\ current_state' = "idle"
    /\ pc' = [pc EXCEPT ![c] = "stop_cb"]
    /\ UNCHANGED <<is_speaking, is_processing, ticker, exc, in_except,
                   speech_started, trace, stopped>>
    /\ UNCHANGED notOrch

\* stop_listening returns
C_StopReturn(c) ==
    /\ pc[c] = "stop_cb"
    /\ pc' = [pc EXCEPT ![c] = "recv"]
    /\ stopped' = TRUE
    /\ UNCHANGED <<current_state, is_listening, is_speaking, is_processing,
                   ticker, exc, in_except, speech_started,
                   trace>>
    /\ UNCHANGED notOrch

\* a new websocket connection after the endpoint closed
C_Connect(c) ==
    /\ pc[c] = "closed"
    /\ pc' = [pc EXCEPT ![c] = "recv"]
    /\ UNCHANGED <<current_state, is_listening, is_speaking, is_processing,
                   ticker, exc, in_except, speech_started,
                   trace, stopped>>
    /\ UNCHANGED notOrch

(***************************************************************************)
(* A listening-loop task: start_listening, with stt.listen inlined.        *)
(***************************************************************************)

\* is_listening = True; update_state("listening")
L_Start(l) ==
    /\ pc[l] = "created"
    /\ is_listening' = TRUE
    /\ current_state' = "listening"
    /\ pc' = [pc EXCEPT ![l] = "check"]
    /\ UNCHANGED <<is_speaking, is_processing, ticker, exc, in_except,
                   speech_started, trace, stopped>>
    /\ UNCHANGED notOrch


\* `while True` in place of `while self.is_listening`
C8_Mut_L_Check(l) ==
    /\ pc[l] = "check"
    /\ pc' = [pc EXCEPT ![l] = "cap_vol"]
    /\ speech_started' = [speech_started EXCEPT ![l] = FALSE]
    /\ UNCHANGED <<current_state, is_listening, is_speaking, is_processing,
                   ticker, exc, in_except, trace, stopped>>
    /\ UNCHANGED notOrch

\* `while self.is_listening`: leave the loop, or enter _record_audio,
\* record the first frame and report its volume
L_Check(l) ==
    /\ pc[l] = "check"
    /\ IF is_listening
          THEN /\ pc' = [pc EXCEPT ![l] = "cap_vol"]
               /\ speech_started' = [speech_started EXCEPT ![l] = FALSE]
          ELSE /\ pc' = [pc EXCEPT ![l] = "none"]
               /\ UNCHANGED speech_started
    /\ UNCHANGED <<current_state, is_listening, is_speaking, is_processing,
                   ticker, exc, in_except, trace, stopped>>
    /\ UNCHANGED notOrch

\* _on_speech_end: update_state("thinking")
on_speech_end(l) ==
    /\ current_state' = "thinking"
    /\ trace' = [trace EXCEPT ![l] = <<"thinking">>]

\* the frame is classified against the threshold and the counters
L_Classify(l) ==
    /\ pc[l] = "cap_vol"
    /\ \E loud \in BOOLEAN, reached \in BOOLEAN :
          CASE loud ->
                 /\ speech_started' = [speech_started EXCEPT ![l] = TRUE]
                 /\ pc' = [pc EXCEPT ![l] = "cap_sleep"]
                 /\ UNCHANGED <<current_state, trace>>
            [] ~loud /\ speech_started[l] /\ reached ->
                 /\ on_speech_end(l)
                 /\ pc' = [pc EXCEPT ![l] = "cap_end_cb"]
                 /\ UNCHANGED speech_started
            [] ~loud /\ ~speech_started[l] /\ reached ->
                 /\ pc' = [pc EXCEPT ![l] = "check"]
                 /\ UNCHANGED <<current_state, speech_started, trace>>
            [] OTHER ->
                 /\ pc' = [pc EXCEPT ![l] = "cap_sleep"]
                 /\ UNCHANGED <<current_state, speech_started, trace>>
    /\ UNCHANGED <<is_listening, is_speaking, is_processing, ticker,
                   exc, in_except, stopped>>
    /\ UNCHANGED notOrch

\* after asyncio.sleep(0.01): the next frame is recorded, its volume reported
L_Frame(l) ==
    /\ pc[l] = "cap_sleep"
    /\ pc' = [pc EXCEPT ![l] = "cap_vol"]
    /\ UNCHANGED <<current_state, is_listening, is_speaking, is_processing,
                   ticker, exc, in_except, speech_started,
                   trace, stopped>>
    /\ UNCHANGED notOrch

\* _transcribe; `if text: await self.process_input(text)`
L_Transcribe(l) ==
    /\ pc[l] = "cap_end_cb"
    /\ \E text \in {"text", "empty"} :
          /\ IF text = "text"
                THEN ProcessInputEnter(l)
                ELSE /\ pc' = [pc EXCEPT ![l] = "check"]
                     /\ trace' = [trace EXCEPT ![l] = <<>>]
                     /\ UNCHANGED current_state
    /\ UNCHANGED <<is_listening, is_speaking, is_processing, ticker,
                   exc, in_except, speech_started, stopped>>
    /\ UNCHANGED notOrch


OrchNext ==
    \/ \E t \in Tasks : PI_Begin(t)
    \/ \E t \in Tasks : PI_Model(t)
    \/ \E t \in Tasks : PI_Speak(t)
    \/ \E t \in Tasks : Speak_Start(t)
    \/ \E t \in Tasks : Speak_TtsDone(t)
    \/ \E t \in Tasks : Ticker_Run(t)
    \/ \E t \in Tasks : Ticker_Cancelled(t)
    \/ \E t \in Tasks : Speak_Join(t)
    \/ \E t \in Tasks : PI_Return(t)
    \/ C_Text(Client)
    \/ C_Start(Client)
    \/ C_Stop(Client)
    \/ C_StopReturn(Client)
    \/ C_Connect(Client)
    \/ \E l \in Loops : L_Start(l)
    \/ \E l \in Loops : L_Check(l)
    \/ \E l \in Loops : L_Classify(l)
    \/ \E l \in Loops : L_Frame(l)
    \/ \E l \in Loops : L_Transcribe(l)

(***************************************************************************)
(* The Segmenter: SpeechToText._record_audio.  Durations are in            *)
(* milliseconds and amplitudes in thousandths, so that the thresholds of   *)
(* SpeechToText.__init__ are integers.                                     *)
(***************************************************************************)
chunk_duration      == 300
silence_threshold   == 8
silence_duration    == 1200
min_speech_duration == 500
wait_timeout        == 10000

max_silence_chunks == silence_duration \div chunk_duration
min_speech_chunks  == min_speech_duration \div chunk_duration
max_waiting        == wait_timeout \div chunk_duration

\* the longest utterance buffer the model lets a capture cycle build
MaxChunks == 7

\* volumes a frame can have: silent, exactly at the threshold, above it
Volumes == {0, silence_threshold, silence_threshold + 1}

\* the locals of _record_audio as the cycle starts
SegReset ==
    /\ chunks = <<>>
    /\ silence_chunks = 0
    /\ speech_detected = FALSE
    /\ waiting_chunks = 0
    /\ seg_result = "recording"
    /\ frames = 0
    /\ volume_signals = 0
    /\ speech_start_signals = 0
    /\ speech_end_signals = 0
    /\ loudest = 0

\* `volume >= self.silence_threshold` in place of `>`
C11_Mut_IsSpeech(volume) == volume >= silence_threshold

\* `volume > 0`: any frame that is not dead silent counts as speech
C32_Mut_IsSpeech(volume) == volume > 0

\* `volume > self.silence_threshold`
IsSpeech(volume) == volume > silence_threshold

\* the volume callback called only while an utterance is being recorded
C12_Mut_VolumeNotified(volume, detected) ==
    IF volume > silence_threshold \/ detected THEN 1 ELSE 0

\* `if self.on_volume_change: ... on_volume_change(float(volume))`, with
\* the callback the assistant installs: calls made for one frame
VolumeNotified(volume, detected) == 1

\* the length test applied to the speech before the trailing silence
C31_Mut_LongEnough(buffer) ==
    (Len(buffer) - max_silence_chunks) * chunk_duration >= min_speech_duration

\* `len(chunks) >= min_speech_chunks`
LongEnough(buffer) == Len(buffer) >= min_speech_chunks

\* one iteration of `while True`: a frame of the given volume is recorded,
\* reported and classified
Seg_Frame(volume) ==
    /\ seg_result = "recording"
    /\ Len(chunks) < MaxChunks
    /\ frames' = frames + 1
    /\ loudest' = IF volume > loudest THEN volume ELSE loudest
    /\ volume_signals' =
          volume_signals + VolumeNotified(volume, speech_detected)
    /\ IF IsSpeech(volume)
          THEN /\ speech_start_signals' =
                     IF ~speech_detected THEN speech_start_signals + 1
                                         ELSE speech_start_signals
               /\ speech_detected' = TRUE
               /\ chunks' = Append(chunks, volume)
               /\ silence_chunks' = 0
               /\ waiting_chunks' = 0
               /\ UNCHANGED <<seg_result, speech_end_signals>>
          ELSE IF speech_detected
          THEN IF silence_chunks + 1 >= max_silence_chunks
                  THEN IF LongEnough(Append(chunks, volume))
                          THEN /\ speech_end_signals' = speech_end_signals + 1
                               /\ seg_result' = "audio"
                               /\ chunks' = Append(chunks, volume)
                               /\ silence_chunks' = silence_chunks + 1
                               /\ UNCHANGED <<speech_detected, waiting_chunks,
                                              speech_start_signals>>
                          ELSE /\ chunks' = <<>>
                               /\ speech_detected' = FALSE
                               /\ silence_chunks' = 0
                               /\ UNCHANGED <<seg_result, waiting_chunks,
                                              speech_start_signals,
                                              speech_end_signals>>
                  ELSE /\ chunks' = Append(chunks, volume)
                       /\ silence_chunks' = silence_chunks + 1
                       /\ UNCHANGED <<speech_detected, waiting_chunks,
                                      seg_result, speech_start_signals,
                                      speech_end_signals>>
          ELSE /\ waiting_chunks' = waiting_chunks + 1
               /\ seg_result' = IF waiting_chunks + 1 >= max_waiting
                                   THEN "none" ELSE "recording"
               /\ UNCHANGED <<chunks, silence_chunks, speech_detected,
                              speech_start_signals, speech_end_signals>>
    /\ UNCHANGED notSeg

\* sd.rec / sd.wait raises: `except Exception: return None`
Seg_DeviceError ==
    /\ seg_result = "recording"
    /\ seg_result' = "none"
    /\ UNCHANGED <<chunks, silence_chunks, speech_detected, waiting_chunks,
                   frames, volume_signals, speech_start_signals,
                   speech_end_signals, loudest>>
    /\ UNCHANGED notSeg

\* the next call of _record_audio: its locals start afresh
Seg_Listen ==
    /\ seg_result # "recording"
    /\ chunks' = <<>>
    /\ silence_chunks' = 0
    /\ speech_detected' = FALSE
    /\ waiting_chunks' = 0
    /\ seg_result' = "recording"
    /\ frames' = 0
    /\ volume_signals' = 0
    /\ speech_start_signals' = 0
    /\ speech_end_signals' = 0
    /\ loudest' = 0
    /\ UNCHANGED notSeg

SegNext ==
    \/ \E volume \in Volumes : Seg_Frame(volume)
    \/ Seg_DeviceError
    \/ Seg_Listen

(***************************************************************************)
(* The command executors: SystemController.execute_smart_command and      *)
(* run_command.  A command is the sequence of its characters.              *)
(***************************************************************************)

\* the `dangerous_commands` list, in its order
dangerous_commands == <<
    <<"d", "e", "l", " ">>,
    <<"r", "m", " ">>,
    <<"r", "m", "d", "i", "r">>,
    <<"f", "o", "r", "m", "a", "t">>,
    <<"s", "h", "u", "t", "d", "o", "w", "n">>,
    <<"r", "e", "s", "t", "a", "r", "t">>,
    <<"r", "e", "g", " ", "d", "e", "l", "e", "t", "e">>,
    <<"r", "d", " ", "/", "s">>,
    <<"d", "e", "l", "t", "r", "e", "e">>,
    <<":", "(", ")", "{">>,
    <<"f", "o", "r", "k", " ", "b", "o", "m", "b">> >>

\* the upper-case ASCII letters and their lower-case forms
UpperToLower ==
    ("A" :> "a") @@
    ("B" :> "b") @@
    ("C" :> "c") @@
    ("D" :> "d") @@
    ("E" :> "e") @@
    ("F" :> "f") @@
    ("G" :> "g") @@
    ("H" :> "h") @@
    ("I" :> "i") @@
    ("J" :> "j") @@
    ("K" :> "k") @@
    ("L" :> "l") @@
    ("M" :> "m") @@
    ("N" :> "n") @@
    ("O" :> "o") @@
    ("P" :> "p") @@
    ("Q" :> "q") @@
    ("R" :> "r") @@
    ("S" :> "s") @@
    ("T" :> "t") @@
    ("U" :> "u") @@
    ("V" :> "v") @@
    ("W" :> "w") @@
    ("X" :> "x") @@
    ("Y" :> "y") @@
    ("Z" :> "z")


\* the patterns matched against the command as typed
C9_Mut_lower(s) == s

\* str.lower()
lower(s) ==
    [i \in 1..Len(s) |-> IF s[i] \in DOMAIN UpperToLower
                            THEN UpperToLower[s[i]] ELSE s[i]]

\* `pattern in text`
Contains(text, pattern) ==
    \E i \in 1..(Len(text) - Len(pattern) + 1) :
        SubSeq(text, i, i + Len(pattern) - 1) = pattern

\* the `for dangerous in dangerous_commands` loop: the first pattern, in
\* list order, that the lowered command contains (0 when none does)
FirstDangerous(command_lower) ==
    LET hits == {k \in 1..Len(dangerous_commands) :
                    Contains(command_lower, dangerous_commands[k])}
    IN  IF hits = {} THEN 0
        ELSE CHOOSE k \in hits : \A j \in hits : k <= j

\* what subprocess.run can do with a command that reaches it
OsOutcomes == {"output", "no_output", "timeout", "error"}

\* command strings submitted: a pattern of the list or a harmless word, in
\* lower, upper or mixed case, inside some surrounding text
upper(s) ==
    [i \in 1..Len(s) |->
        IF \E u \in DOMAIN UpperToLower : UpperToLower[u] = s[i]
           THEN CHOOSE u \in DOMAIN UpperToLower : UpperToLower[u] = s[i]
           ELSE s[i]]

mixed(s) == [i \in 1..Len(s) |-> IF i % 2 = 1 THEN upper(s)[i] ELSE s[i]]

Words == {dangerous_commands[k] : k \in 1..Len(dangerous_commands)} \cup {
    <<"d", "i", "r">>,
    <<"e", "c", "h", "o", " ", "h", "i">>,
    <<"r", "m">>,
    <<"d", "e", "l">>,
    <<"r", "m", " ", "-", "r", "f", " ", "/">>,
    <<"f", "o", "r", "m", "a">>,
    <<"r", "e", "s", "t", "a", "r">>,
    <<"r", "e", "g", " ", "q", "u", "e", "r", "y">>,
    <<"r", "d">>,
    <<"l", "s", " ", "-", "l", "a">> }

Pads == {<<>>, <<"x">>, <<" ">>, <<"/", "s">>}

Commands ==
    {pre \o w \o post :
        pre \in Pads, post \in Pads,
        w \in Words \cup {upper(x) : x \in Words} \cup {mixed(x) : x \in Words}}

CmdIdle ==
    /\ command = <<>>
    /\ safe_mode = TRUE
    /\ cmd_result = "idle"
    /\ blocked_by = <<>>
    /\ os_invoked = FALSE

\* one call execute_smart_command(cmd, safe)
ExecuteSmartCommand(cmd, safe) ==
    /\ cmd_result = "idle"
    /\ command' = cmd
    /\ safe_mode' = safe
    /\ LET k == FirstDangerous(lower(cmd))
       IN  IF safe /\ k # 0
              THEN /\ cmd_result' = "blocked"
                   /\ blocked_by' = dangerous_commands[k]
                   /\ os_invoked' = FALSE
              ELSE /\ \E outcome \in OsOutcomes : cmd_result' = outcome
                   /\ blocked_by' = <<>>
                   /\ os_invoked' = TRUE
    /\ UNCHANGED notCmd

\* the keyword of check_system_command that selects run_command
run_keyword ==
    <<"e", "x", "e", "c", "u", "t", "a", "r", " ",
      "c", "o", "m", "a", "n", "d", "o">>

\* str.strip() over the characters used here (the blank is the only
\* whitespace among them)
strip_blanks(s) ==
    LET inked == {i \in 1..Len(s) : s[i] # " "}
    IN  IF inked = {} THEN <<>>
        ELSE SubSeq(s, CHOOSE i \in inked : \A j \in inked : i <= j,
                       CHOOSE i \in inked : \A j \in inked : i >= j)

\* group 1 of (?:executar|rodar|run)\s+(?:comando\s+)?(.+) on the lowered
\* text "executar comando" + " " + rest, stripped: the rest when it holds
\* more than blanks, else the word "comando" itself (the optional group is
\* given up so that (.+) has something to match)
RunCommandArgument(rest) ==
    IF strip_blanks(rest) = <<>> THEN SubSeq(run_keyword, 10, 16)
                                 ELSE strip_blanks(lower(rest))

\* what run_command answers once subprocess.run was called
RunCommandResults ==
    {"run_output", "run_no_output", "run_timeout", "run_error"}

\* a user turn whose text is "executar comando <rest>": check_system_command
\* hands it to run_command, which passes the extracted command to
\* subprocess.run; no denylist is consulted and there is no safe mode
RunCommand(rest) ==
    /\ cmd_result = "idle"
    /\ command' = RunCommandArgument(rest)
    /\ safe_mode' = FALSE
    /\ \E outcome \in RunCommandResults : cmd_result' = outcome
    /\ blocked_by' = <<>>
    /\ os_invoked' = TRUE
    /\ UNCHANGED notCmd

\* the result text is handed back; the next call can be made
Cmd_Return ==
    /\ cmd_result # "idle"
    /\ command' = <<>>
    /\ safe_mode' = TRUE
    /\ cmd_result' = "idle"
    /\ blocked_by' = <<>>
    /\ os_invoked' = FALSE
    /\ UNCHANGED notCmd

CmdNext ==
    \/ \E cmd \in Commands, safe \in BOOLEAN : ExecuteSmartCommand(cmd, safe)
    \/ \E rest \in Commands \cup {<<>>} : RunCommand(rest)
    \/ Cmd_Return

(***************************************************************************)
(* The Action Protocol: OllamaClient.parse_response_with_actions.  A reply *)
(* is a sequence of tokens, each standing for a fixed piece of text:       *)
(*   "F"  ```json          "E"  ```            "w"  white space            *)
(*   "x"  a word           "{" "}" "[" "]" ","  themselves                 *)
(*   "K"  "actions":       "N"  "note":                                    *)
(*   "a" "b"  two action objects, such as {"type":"open_app"}              *)
(* The two regular expressions begin and end their matches at token        *)
(* boundaries, so a match is a pair of token positions.                     *)
(***************************************************************************)
Atoms == {"a", "b"}
Keys  == {"K", "N"}

\* the tokens whose text begins with `{`, and those whose text ends with `}`
Opens(tok)  == tok \in {"{"} \cup Atoms
Closes(tok) == tok \in {"}"} \cup Atoms

Min(S) == CHOOSE m \in S : \A n \in S : m <= n

\* `\s*`: the first position from i on that holds no white space
SkipWs(t, i) ==
    LET S == {k \in i..Len(t) : t[k] # "w"}
    IN  IF S = {} THEN Len(t) + 1 ELSE Min(S)

\* str.strip()
RECURSIVE strip(_)
strip(t) ==
    IF t = <<>> THEN <<>>
    ELSE IF Head(t) = "w" THEN strip(Tail(t))
    ELSE IF t[Len(t)] = "w" THEN strip(SubSeq(t, 1, Len(t) - 1))
    ELSE t

\* white space between JSON tokens is skipped by the JSON reader
NoWs(t) == SelectSeq(t, LAMBDA tok : tok # "w")

NoMatch == [gs |-> 0, ge |-> 0, end |-> 0]

\* json_pattern = ```json\s*\n?({.+?})\s*\n?``` tried at position i: the
\* group runs from the `{` right after the fence to the first `}` that is
\* followed by the closing fence (`.+?` is lazy and needs one character)
FencedAt(t, i) ==
    LET k == SkipWs(t, i + 1)
        J == IF t[i] = "F" /\ k <= Len(t) /\ Opens(t[k])
                THEN {j \in k..Len(t) :
                        /\ Closes(t[j])
                        /\ \/ j > k + 1
                           \/ j = k + 1 /\ (t[k] \in Atoms \/ t[j] \in Atoms)
                           \/ j = k /\ t[k] \in Atoms
                        /\ LET c == SkipWs(t, j + 1)
                           IN  c <= Len(t) /\ t[c] = "E"}
                ELSE {}
    IN  IF J = {} THEN NoMatch
        ELSE [gs |-> k, ge |-> Min(J), end |-> SkipWs(t, Min(J) + 1)]

\* simple_json_pattern = \{\s*"actions"\s*:\s*\[.+?\]\s*\} tried at i
BareAt(t, i) ==
    LET k1 == SkipWs(t, i + 1)
        k2 == SkipWs(t, k1 + 1)
        R  == IF /\ t[i] = "{"
                 /\ k1 <= Len(t) /\ t[k1] = "K"
                 /\ k2 <= Len(t) /\ t[k2] = "["
                 THEN {r \in (k2 + 2)..Len(t) :
                         /\ t[r] = "]"
                         /\ LET c == SkipWs(t, r + 1)
                            IN  c <= Len(t) /\ t[c] = "}"}
                 ELSE {}
    IN  IF R = {} THEN NoMatch
        ELSE [gs |-> i, ge |-> SkipWs(t, Min(R) + 1),
              end |-> SkipWs(t, Min(R) + 1)]

\* re.search(json_pattern, ...): the leftmost position where it matches
FencedSearch(t) ==
    LET I == {i \in 1..Len(t) : FencedAt(t, i).end # 0}
    IN  IF I = {} THEN NoMatch ELSE FencedAt(t, Min(I))

\* re.search(simple_json_pattern, ...)
BareSearch(t) ==
    LET I == {i \in 1..Len(t) : BareAt(t, i).end # 0}
    IN  IF I = {} THEN NoMatch ELSE BareAt(t, Min(I))

\* re.sub(json_pattern, '', text): every match is removed, left to right
RECURSIVE RemoveFenced(_, _)
RemoveFenced(t, i) ==
    IF i > Len(t) THEN <<>>
    ELSE IF FencedAt(t, i).end # 0 THEN RemoveFenced(t, FencedAt(t, i).end + 1)
    ELSE <<t[i]>> \o RemoveFenced(t, i + 1)

\* re.sub(simple_json_pattern, '', text)
RECURSIVE RemoveBare(_, _)
RemoveBare(t, i) ==
    IF i > Len(t) THEN <<>>
    ELSE IF BareAt(t, i).end # 0 THEN RemoveBare(t, BareAt(t, i).end + 1)
    ELSE <<t[i]>> \o RemoveBare(t, i + 1)

\* json.loads on tokens without white space: the position of the last token
\* of the JSON value that begins at i, or 0 when there is none
RECURSIVE ValueEnd(_, _)
RECURSIVE ItemsEnd(_, _)
RECURSIVE MembersEnd(_, _)
ValueEnd(t, i) ==
    IF i > Len(t) THEN 0
    ELSE IF t[i] \in Atoms THEN i
    ELSE IF t[i] = "["
         THEN IF i < Len(t) /\ t[i + 1] = "]" THEN i + 1 ELSE ItemsEnd(t, i + 1)
    ELSE IF t[i] = "{"
         THEN IF i < Len(t) /\ t[i + 1] = "}" THEN i + 1
              ELSE MembersEnd(t, i + 1)
    ELSE 0

ItemsEnd(t, i) ==
    LET e == ValueEnd(t, i)
    IN  IF e = 0 \/ e >= Len(t) THEN 0
        ELSE IF t[e + 1] = "]" THEN e + 1
        ELSE IF t[e + 1] = "," THEN ItemsEnd(t, e + 2)
        ELSE 0

MembersEnd(t, i) ==
    IF i > Len(t) \/ t[i] \notin Keys THEN 0
    ELSE LET e == ValueEnd(t, i + 1)
         IN  IF e = 0 \/ e >= Len(t) THEN 0
             ELSE IF t[e + 1] = "}" THEN e + 1
             ELSE IF t[e + 1] = "," THEN MembersEnd(t, e + 2)
             ELSE 0

\* json.loads(text) returns rather than raising JSONDecodeError
JsonValid(text) ==
    LET t == NoWs(text) IN t # <<>> /\ ValueEnd(t, 1) = Len(t)

Absent == <<"absent">>
EmptyList == <<"[", "]">>

\* the value of the last "actions" member of the object whose members
\* begin at i, as its tokens; Absent when the object has no such key
RECURSIVE Member(_, _, _)
Member(t, i, found) ==
    IF i > Len(t) \/ t[i] \notin Keys THEN found
    ELSE LET e == ValueEnd(t, i + 1)
             v == IF t[i] = "K" THEN SubSeq(t, i + 1, e) ELSE found
         IN  IF e # 0 /\ e < Len(t) /\ t[e + 1] = ","
                THEN Member(t, e + 2, v)
                ELSE v

\* action_data['actions'] of the decoded text; the action objects
\* themselves have no "actions" key
ActionsOf(text) ==
    LET t == NoWs(text)
    IN  IF t[1] = "{" THEN Member(t, 2, Absent) ELSE Absent

\* `not result['actions']`
Falsy(value) == value \in {EmptyList, <<"{", "}">>}

\* result = {'message': response, 'actions': []}: the message as stripped
C15_Mut_InitialMessage(reply) == strip(reply)

\* result = {'message': response, 'actions': []}
InitialMessage(reply) == reply

\* the message rewritten whether or not the fenced text decodes
C14_Mut_FencedMessage(reply, decoded) == strip(RemoveFenced(reply, 1))

\* result['message'] after the fenced branch: rewritten inside the try,
\* so only when json.loads returned
FencedMessage(reply, decoded) ==
    IF decoded THEN strip(RemoveFenced(reply, 1))
               ELSE InitialMessage(reply)

\* the whole of parse_response_with_actions
parse_response_with_actions(reply) ==
    LET match    == FencedSearch(reply)
        group    == SubSeq(reply, match.gs, match.ge)
        decoded  == match.end # 0 /\ JsonValid(group)
        actions1 == IF decoded /\ ActionsOf(group) # Absent
                       THEN ActionsOf(group) ELSE EmptyList
        message1 == FencedMessage(reply, decoded)
        match2   == BareSearch(reply)
        group2   == SubSeq(reply, match2.gs, match2.ge)
        decoded2 == Falsy(actions1) /\ match2.end # 0 /\ JsonValid(group2)
    IN  IF decoded2
           THEN [actions |-> IF ActionsOf(group2) # Absent
                                THEN ActionsOf(group2) ELSE EmptyList,
                 message |-> strip(RemoveBare(reply, 1))]
           ELSE [actions |-> actions1, message |-> message1]

\* JSON texts a reply is written with
OneAction     == <<"{", "K", "[", "a", "]", "}">>
TwoActions    == <<"{", "K", "[", "a", ",", "b", "]", "}">>
TwoReversed   == <<"{", "K", "[", "b", ",", "a", "]", "}">>
SpacedOne     == <<"{", "w", "K", "w", "[", "w", "b", "w", "]", "w", "}">>
NoneListed    == <<"{", "K", "[", "]", "}">>
NoneSpaced    == <<"{", "K", "[", "w", "]", "}">>
NoActionsKey  == <<"{", "N", "a", "}">>
TrailingComma == <<"{", "K", "[", "a", ",", "]", "}">>
ExtraData     == <<"{", "K", "[", "a", "]", "}", "x", "}">>
Unclosed      == <<"{", "K", "[", "a", "]">>
Prose         == <<"{", "x", "}">>

WithActions == {OneAction, TwoActions, TwoReversed, SpacedOne}
WithList    == WithActions \cup {NoneListed, NoneSpaced}
Malformed   == {TrailingComma, ExtraData, Prose}
Bodies      == WithList \cup Malformed \cup {NoActionsKey, Unclosed}

\* the list a body of WithList carries, as its tokens
ListOf(body) == SubSeq(NoWs(body), 3, Len(NoWs(body)) - 1)

NoBlock == [form |-> "none", body |-> <<>>]
Blocks  == {NoBlock} \cup [form : {"fenced", "bare"}, body : Bodies]

\* the text of a block: fenced between ```json and ```, or bare
BlockText(block) ==
    CASE block.form = "none"   -> <<>>
      [] block.form = "bare"   -> block.body
      [] block.form = "fenced" -> <<"F", "w">> \o block.body \o <<"w", "E">>

Pres  == {<<>>, <<"w">>, <<"x", "w">>}
Mids  == {<<>>, <<"w", "x", "w">>}
Posts == {<<>>, <<"w">>, <<"w", "x">>}

Replies == [pre : Pres, first : Blocks, mid : Mids, second : Blocks,
            post : Posts]

NoParts == [pre |-> <<>>, first |-> NoBlock, mid |-> <<>>,
            second |-> NoBlock, post |-> <<>>]

Compose(p) ==
    p.pre \o BlockText(p.first) \o p.mid \o BlockText(p.second) \o p.post

\* the reply without its blocks
Surrounding(p) == p.pre \o p.mid \o p.post

ParseIdle ==
    /\ response = <<>>
    /\ result_actions = EmptyList
    /\ result_message = <<>>
    /\ parse_pc = "idle"
    /\ parts = NoParts

\* one call parse_response_with_actions(response) on a reply of the model
Parse_Call ==
    /\ parse_pc = "idle"
    /\ \E p \in Replies :
          /\ parts' = p
          /\ response' = Compose(p)
          /\ result_actions' = parse_response_with_actions(Compose(p)).actions
          /\ result_message' = parse_response_with_actions(Compose(p)).message
    /\ parse_pc' = "parsed"
    /\ UNCHANGED notParse

\* the message of the last result is parsed in its turn
Parse_Again ==
    /\ parse_pc = "parsed"
    /\ response' = result_message
    /\ result_actions' = parse_response_with_actions(result_message).actions
    /\ result_message' = parse_response_with_actions(result_message).message
    /\ parse_pc' = "reparsed"
    /\ UNCHANGED parts
    /\ UNCHANGED notParse

\* the caller is done with the result
Parse_Return ==
    /\ parse_pc \in {"parsed", "reparsed"}
    /\ response' = <<>>
    /\ result_actions' = EmptyList
    /\ result_message' = <<>>
    /\ parse_pc' = "idle"
    /\ parts' = NoParts
    /\ UNCHANGED notParse

ParseNext ==
    \/ Parse_Call
    \/ Parse_Again
    \/ Parse_Return

(***************************************************************************)
(* The steps of one turn: SkynetAssistant.process_input with               *)
(* check_system_command and speak, followed for what each step is given    *)
(* and leaves behind.  The user text is the sequence of its characters; a  *)
(* reply of the model is a sequence of tokens as above; a reply of a       *)
(* command handler is the pair of its kind and the handler's name.         *)
(***************************************************************************)

\* the keys of the `commands` dict, in its order
command_keywords == <<
    <<"a", "b", "r", "i", "r">>,
    <<"f", "e", "c", "h", "a", "r">>,
    <<"e", "x", "e", "c", "u", "t", "a", "r", " ",
      "c", "o", "m", "a", "n", "d", "o">>,
    <<"p", "e", "s", "q", "u", "i", "s", "a", "r">>,
    <<"v", "o", "l", "u", "m", "e">>,
    <<"s", "c", "r", "e", "e", "n", "s", "h", "o", "t">>,
    <<"d", "i", "g", "i", "t", "a", "r">> >>

\* the values of the `commands` dict, in its order
command_handlers == <<"open_application", "close_application", "run_command",
                      "web_search", "set_volume", "take_screenshot",
                      "type_text">>

\* the keyword the loop stops at is the last one the text contains
C19_Mut_FirstKeyword(text_lower) ==
    LET hits == {k \in 1..Len(command_keywords) :
                    Contains(text_lower, command_keywords[k])}
    IN  IF hits = {} THEN 0
        ELSE CHOOSE k \in hits : \A j \in hits : k >= j

\* `for keyword, handler in commands.items(): if keyword in text_lower`:
\* the first keyword, in dict order, that the lowered text contains (0 when
\* none does)
FirstKeyword(text_lower) ==
    LET hits == {k \in 1..Len(command_keywords) :
                    Contains(text_lower, command_keywords[k])}
    IN  IF hits = {} THEN 0
        ELSE CHOOSE k \in hits : \A j \in hits : k <= j

\* `not text.strip()`
IsBlank(s) == \A i \in 1..Len(s) : s[i] = " "

\* texts a turn is given
Texts ==
    {command_keywords[k] : k \in 1..Len(command_keywords)} \cup {
    <<>>,
    <<" ", " ">>,
    <<"o", "i">>,
    <<"e", "x", "e", "c", "u", "t", "a", "r">>,
    upper(command_keywords[1]),
    mixed(command_keywords[5]),
    command_keywords[2] \o <<" ">> \o command_keywords[1],
    command_keywords[1] \o <<" ">> \o command_keywords[2],
    upper(command_keywords[7]) \o <<" ">> \o command_keywords[5],
    <<"r", "e">> \o command_keywords[1] }

\* replies generate_response gives: plain text, or text and an actions block
PlainReply == <<"x">>
BlockReply == <<"x", "w", "F", "w">> \o TwoActions \o <<"w", "E">>
ModelReplies == {PlainReply, BlockReply}

\* error_msg of the except handler
ErrorMsg == <<"error_msg">>

TurnIdle ==
    /\ turn_pc = "idle"
    /\ user_text = <<>>
    /\ steps = <<>>
    /\ turn_response = <<>>
    /\ conversation_history = <<>>
    /\ messages = <<>>
    /\ spoken = <<>>
    /\ failed = FALSE

\* update_state in a turn of the client's task: assign current_state, then
\* emit the state event (kept in the client's trace)
Turn_UpdateState(state) ==
    /\ current_state' = state
    /\ trace' = [trace EXCEPT ![Client] = Append(@, state)]

\* process_input that goes on whatever the text holds
C34_Mut_Turn_Enter ==
    /\ turn_pc = "idle"
    /\ \E t \in Texts :
          /\ user_text' = t
          /\ turn_pc' = "add_user"
          /\ Turn_UpdateState("thinking")
    /\ UNCHANGED is_processing
    /\ UNCHANGED <<steps, turn_response, conversation_history, messages, spoken,
                   failed>>
    /\ UNCHANGED notTurn

\* process_input(text): a blank text returns at once; else
\* update_state("thinking")
Turn_Enter ==
    /\ turn_pc = "idle"
    /\ \E t \in Texts :
          /\ user_text' = t
          /\ IF IsBlank(t)
                THEN /\ turn_pc' = "done"
                     /\ UNCHANGED <<current_state, trace>>
                ELSE /\ turn_pc' = "add_user"
                     /\ Turn_UpdateState("thinking")
    /\ UNCHANGED is_processing
    /\ UNCHANGED <<steps, turn_response, conversation_history, messages, spoken,
                   failed>>
    /\ UNCHANGED notTurn

\* is_processing = True; memory.add_message("user", text): the list is
\* appended to, then the database write may raise
Turn_AddUser ==
    /\ turn_pc = "add_user"
    /\ conversation_history' =
          Append(conversation_history, [role |-> "user", content |-> user_text])
    /\ steps' = Append(steps, "add_user")
    /\ \E raised \in BOOLEAN :
          turn_pc' = IF raised THEN "except" ELSE "history"
    /\ UNCHANGED <<user_text, turn_response, messages, spoken, failed>>
    /\ is_processing' = TRUE
    /\ UNCHANGED <<current_state, trace>>
    /\ UNCHANGED notTurn

\* history = await self.memory.get_conversation_history()
Turn_History ==
    /\ turn_pc = "history"
    /\ steps' = Append(steps, "history")
    /\ turn_pc' = "reply"
    /\ UNCHANGED <<user_text, turn_response, conversation_history, messages,
                   spoken, failed>>
    /\ UNCHANGED <<current_state, is_processing, trace>>
    /\ UNCHANGED notTurn

\* a turn that asks the model whatever the text holds
C18_Mut_Turn_Reply ==
    /\ turn_pc = "reply"
    /\ \E r \in ModelReplies :
          /\ turn_response' = r
          /\ steps' = steps \o
                (IF FirstKeyword(lower(user_text)) # 0
                    THEN <<command_handlers[FirstKeyword(lower(user_text))]>>
                    ELSE <<>>) \o <<"model">>
    /\ turn_pc' = "add_assistant"
    /\ UNCHANGED <<user_text, conversation_history, messages, spoken, failed>>
    /\ UNCHANGED <<current_state, is_processing, trace>>
    /\ UNCHANGED notTurn

\* check_system_command(text), and generate_response when it returns None:
\* the first matching handler is called and its result, or the error text
\* if it raised, is the reply
Turn_Reply ==
    /\ turn_pc = "reply"
    /\ LET k == FirstKeyword(lower(user_text))
       IN  IF k # 0
              THEN /\ \E raised \in BOOLEAN :
                         turn_response' =
                             <<IF raised THEN "error" ELSE "result",
                               command_handlers[k]>>
                   /\ steps' = Append(steps, command_handlers[k])
              ELSE /\ \E r \in ModelReplies : turn_response' = r
                   /\ steps' = Append(steps, "model")
    /\ turn_pc' = "add_assistant"
    /\ UNCHANGED <<user_text, conversation_history, messages, spoken, failed>>
    /\ UNCHANGED <<current_state, is_processing, trace>>
    /\ UNCHANGED notTurn

\* memory.add_message("assistant", response)
Turn_AddAssistant ==
    /\ turn_pc = "add_assistant"
    /\ conversation_history' =
          Append(conversation_history,
                 [role |-> "assistant", content |-> turn_response])
    /\ steps' = Append(steps, "add_assistant")
    /\ \E raised \in BOOLEAN :
          turn_pc' = IF raised THEN "except" ELSE "send"
    /\ UNCHANGED <<user_text, turn_response, messages, spoken, failed>>
    /\ UNCHANGED <<current_state, is_processing, trace>>
    /\ UNCHANGED notTurn

\* what is said and shown: the reply, or error_msg in the except handler
Said == IF failed THEN ErrorMsg ELSE turn_response

\* send_message(response, "assistant")
Turn_Send ==
    /\ turn_pc = "send"
    /\ messages' = Append(messages, Said)
    /\ steps' = Append(steps, "message")
    /\ turn_pc' = "speak"
    /\ UNCHANGED <<user_text, turn_response, conversation_history,
                   spoken, failed>>
    /\ UNCHANGED <<current_state, is_processing, trace>>
    /\ UNCHANGED notTurn

\* speak: is_speaking, update_state("speaking")
Turn_SpeakState ==
    /\ turn_pc = "speak"
    /\ steps' = Append(steps, "speaking")
    /\ turn_pc' = "tts"
    /\ UNCHANGED <<user_text, turn_response, conversation_history, messages,
                   spoken, failed>>
    /\ Turn_UpdateState("speaking")
    /\ UNCHANGED is_processing
    /\ UNCHANGED notTurn

\* speak: the ticker is created and tts.speak(text) is awaited; what
\* speak raises inside the try block enters the except handler, what it
\* raises inside the handler leaves through the finally block
Turn_Tts ==
    /\ turn_pc = "tts"
    /\ spoken' = Append(spoken, Said)
    /\ steps' = Append(steps, "tts")
    /\ \E raised \in BOOLEAN :
          turn_pc' = IF raised /\ ~failed THEN "except" ELSE "finally"
    /\ UNCHANGED <<user_text, turn_response, conversation_history,
                   messages, failed>>
    /\ UNCHANGED <<current_state, is_processing, trace>>
    /\ UNCHANGED notTurn

\* an except handler that speaks the error without sending it
C26_Mut_Turn_Except ==
    /\ turn_pc = "except"
    /\ failed' = TRUE
    /\ turn_pc' = "speak"
    /\ UNCHANGED <<user_text, steps, turn_response, conversation_history,
                   messages, spoken>>
    /\ UNCHANGED <<current_state, is_processing, trace>>
    /\ UNCHANGED notTurn

\* except Exception: error_msg is sent and spoken
Turn_Except ==
    /\ turn_pc = "except"
    /\ failed' = TRUE
    /\ turn_pc' = "send"
    /\ UNCHANGED <<user_text, steps, turn_response, conversation_history,
                   messages, spoken>>
    /\ UNCHANGED <<current_state, is_processing, trace>>
    /\ UNCHANGED notTurn

\* finally: is_processing = False, update_state(...)
Turn_Finally ==
    /\ turn_pc = "finally"
    /\ turn_pc' = "done"
    /\ UNCHANGED <<user_text, steps, turn_response, conversation_history,
                   messages, spoken, failed>>
    /\ is_processing' = FALSE
    /\ Turn_UpdateState(FinalState(is_listening))
    /\ UNCHANGED notTurn

\* process_input has returned; the next turn starts afresh
Turn_Return ==
    /\ turn_pc = "done"
    /\ turn_pc' = "idle"
    /\ user_text' = <<>>
    /\ steps' = <<>>
    /\ turn_response' = <<>>
    /\ conversation_history' = <<>>
    /\ messages' = <<>>
    /\ spoken' = <<>>
    /\ failed' = FALSE
    /\ trace' = [trace EXCEPT ![Client] = <<>>]
    /\ UNCHANGED <<current_state, is_processing>>
    /\ UNCHANGED notTurn

TurnNext ==
    \/ Turn_Enter
    \/ Turn_AddUser
    \/ Turn_History
    \/ Turn_Reply
    \/ Turn_AddAssistant
    \/ Turn_Send
    \/ Turn_SpeakState
    \/ Turn_Tts
    \/ Turn_Except
    \/ Turn_Finally
    \/ Turn_Return

(***************************************************************************)
(* The action dispatcher: SystemController.execute_action.  An action is   *)
(* its type tag and the state of the parameter its capability reads:       *)
(* missing from the dict, present with the value null, or present with a   *)
(* value.  A result is told by its kind:                                   *)
(*   "ok"        the text of a success                                     *)
(*   "marked"    a text that begins with a failure mark                    *)
(*   "error"     a text that begins with "Erro"                            *)
(*   "unmarked"  a text that reports a failure without a prefix            *)
(*   "raised"    no text: an exception left execute_action                 *)
(***************************************************************************)

\* the system capabilities among the keys of the `handlers` dict
Capabilities == {"execute_command", "open_app", "close_app", "open_url",
                 "file_operation", "list_processes", "set_volume",
                 "screenshot", "type_text"}

\* what action.get('type', '') gives when it is no key of `handlers`: a
\* string the table does not hold, '' for a missing type, None for null
UnknownTags == {"unknown", "", "none"}

\* the type tags an action comes with
ActionTypes == Capabilities \cup UnknownTags

ParamStates == {"missing", "null", "value"}

\* what the handler's lambda hands to the capability: action.get(key,
\* default) gives None for a null parameter, and None too where no default
\* is given; an f-string or a constant is a string whatever the parameter
Argument(type, param) ==
    CASE type \in {"close_app", "type_text", "screenshot"} -> "string"
      [] type = "list_processes" ->
            IF param = "value" THEN "string" ELSE "none"
      [] OTHER -> IF param = "null" THEN "none" ELSE "string"

\* the capabilities that use their argument as a string before their try
\* block: command.lower(), app_name.lower(), os.path.expandvars(path)
UsesArgumentUnguarded == {"execute_command", "open_app", "file_operation"}

\* the capabilities that use their argument as a string inside their try
UsesArgumentGuarded == {"open_url", "set_volume"}

\* the capability raises to execute_action, which has no try block
CapabilityRaises(type, argument) ==
    argument = "none" /\ type \in UsesArgumentUnguarded

\* the kind of text a capability returns from its except clauses or, for
\* the launcher, after its attempts have failed
FailureKind(type) ==
    CASE type \in {"execute_command", "open_url", "file_operation",
                   "list_processes"} -> "marked"
      [] type \in {"close_app", "set_volume", "screenshot", "type_text"}
            -> "error"
      [] type = "open_app" -> "unmarked"

ActIdle ==
    /\ act_pc = "idle"
    /\ action_type = "unknown"
    /\ action_param = "missing"
    /\ act_result = "none"
    /\ capability_failed = FALSE

\* execute_action(action): action_type = action.get('type', '')
Act_Call ==
    /\ act_pc = "idle"
    /\ \E type \in ActionTypes, param \in ParamStates :
          /\ action_type' = type
          /\ action_param' = param
    /\ act_pc' = "dispatch"
    /\ UNCHANGED <<act_result, capability_failed>>
    /\ UNCHANGED notAct

\* handlers[action_type] in place of handlers.get(action_type): KeyError
C21_Mut_Act_Dispatch ==
    /\ act_pc = "dispatch"
    /\ IF action_type \in Capabilities
          THEN /\ act_pc' = "capability"
               /\ UNCHANGED act_result
          ELSE /\ act_pc' = "returned"
               /\ act_result' = "raised"
    /\ UNCHANGED <<action_type, action_param, capability_failed>>
    /\ UNCHANGED notAct

\* handler = handlers.get(action_type): an unknown type is answered at once
\* with the text that names it, which begins with the failure mark
Act_Dispatch ==
    /\ act_pc = "dispatch"
    /\ IF action_type \in Capabilities
          THEN /\ act_pc' = "capability"
               /\ UNCHANGED act_result
          ELSE /\ act_pc' = "returned"
               /\ act_result' = "marked"
    /\ UNCHANGED <<action_type, action_param, capability_failed>>
    /\ UNCHANGED notAct

\* return await handler(): the capability runs; what it does on the
\* system succeeds or fails
Act_Capability ==
    /\ act_pc = "capability"
    /\ LET argument == Argument(action_type, action_param)
       IN  IF CapabilityRaises(action_type, argument)
              THEN /\ act_result' = "raised"
                   /\ capability_failed' = TRUE
              ELSE IF argument = "none" /\ action_type \in UsesArgumentGuarded
              THEN /\ act_result' = FailureKind(action_type)
                   /\ capability_failed' = TRUE
              ELSE \E fails \in BOOLEAN :
                      /\ capability_failed' = fails
                      /\ act_result' = IF fails THEN FailureKind(action_type)
                                                ELSE "ok"
    /\ act_pc' = "returned"
    /\ UNCHANGED <<action_type, action_param>>
    /\ UNCHANGED notAct

\* the caller has the result, or the exception
Act_Return ==
    /\ act_pc = "returned"
    /\ act_pc' = "idle"
    /\ action_type' = "unknown"
    /\ action_param' = "missing"
    /\ act_result' = "none"
    /\ capability_failed' = FALSE
    /\ UNCHANGED notAct

ActNext ==
    \/ Act_Call
    \/ Act_Dispatch
    \/ Act_Capability
    \/ Act_Return

(***************************************************************************)
(* Events on their way to the observers.  update_state assigns the state   *)
(* and awaits state_callback, which awaits broadcast, which awaits         *)
(* send_json on one connection after the other: from the assignment to     *)
(* the call of send_json on the first connection no await yields, and      *)
(* every later connection is reached when the send before it has ended.    *)
(* send_message and the callbacks of the capture loop reach broadcast the  *)
(* same way.  An event is the number of its transition, in the order the   *)
(* transitions occurred.                                                   *)
(***************************************************************************)

\* the connections of active_connections, in the order broadcast meets them
MaxObservers == 2
Observers == 1..MaxObservers

\* the events one run emits
MaxEvents == 3

\* the tasks that emit events: a listening loop with its turn, the ticker
\* of a speak() call, the websocket client (stop_listening, a text turn)
Emitters == {"loop", "ticker", "client"}

CastIdle ==
    cast = [occurred |-> 0,
            event    |-> [t \in Emitters |-> 0],
            at       |-> [t \in Emitters |-> 0],
            handed   |-> [c \in Observers |-> <<>>]]

\* update_state with a suspension between the assignment and the callback
C23_Mut_Cast_Emit(t) ==
    /\ cast.event[t] = 0
    /\ cast.occurred < MaxEvents
    /\ cast' = [cast EXCEPT !.occurred = @ + 1,
                            !.event[t] = cast.occurred + 1]
    /\ UNCHANGED notCast

\* the transition occurs and, with no suspension in between, send_json is
\* called on the first connection
Cast_Emit(t) ==
    /\ cast.event[t] = 0
    /\ cast.occurred < MaxEvents
    /\ cast' = [cast EXCEPT !.occurred = @ + 1,
                            !.event[t] = cast.occurred + 1,
                            !.at[t] = 1,
                            !.handed[1] = Append(@, cast.occurred + 1)]
    /\ UNCHANGED notCast

\* `await connection.send_json(message)` ends, by returning or by an
\* exception that broadcast prints: the loop calls send_json on the next
\* connection, or broadcast returns
Cast_SendDone(t) ==
    /\ cast.event[t] # 0
    /\ IF cast.at[t] < MaxObservers
          THEN cast' = [cast EXCEPT
                           !.at[t] = @ + 1,
                           !.handed[cast.at[t] + 1] =
                               Append(@, cast.event[t])]
          ELSE cast' = [cast EXCEPT !.at[t] = 0, !.event[t] = 0]
    /\ UNCHANGED notCast

\* animation_task.cancel() reaches the ticker while it awaits a send: its
\* broadcast is abandoned where it stands
Cast_Cancel ==
    /\ cast.event["ticker"] # 0
    /\ cast' = [cast EXCEPT !.at["ticker"] = 0, !.event["ticker"] = 0]
    /\ UNCHANGED notCast

CastNext ==
    \/ \E t \in Emitters : Cast_Emit(t)
    \/ \E t \in Emitters : Cast_SendDone(t)
    \/ Cast_Cancel

(***************************************************************************)
(* The listening loop on the event loop.  asyncio runs one task at a time, *)
(* from the point where it is resumed to the next await that suspends it;  *)
(* awaiting a coroutine that returns without suspending does not yield.    *)
(* ll.running is the task that holds the event loop, "none" when every     *)
(* task is suspended.  The record starts where start_listening has set     *)
(* is_listening and is suspended in update_state("listening").             *)
(*   pc          where the loop task is: at the `while` test, suspended in *)
(*               a capture cycle, in a turn, in the backoff sleep, or out  *)
(*   last        how the latest capture attempt ended                      *)
(*   rested      the backoff sleep has run since the latest failed attempt *)
(*   attempt     flips at every capture attempt                            *)
(*   failures    failed attempts so far, counted up to MaxFailures         *)
(*   stop        the client's stop_listening message                       *)
(***************************************************************************)

\* the failed attempts the record counts
MaxFailures == 3

LoopIdle ==
    ll = [pc |-> "check", running |-> "none", is_listening |-> TRUE,
          last |-> "none", rested |-> FALSE, attempt |-> 0, failures |-> 0,
          stop |-> "none"]

\* the loop task holds the event loop or can be given it
LoopCanRun == ll.running \in {"none", "loop"}

\* listen(): `except Exception: ... return None`; a failed capture comes
\* back to start_listening as no text, never as an exception
ListenRaises(broke) == FALSE

\* `while self.is_listening:` and, inside, the start of stt.listen(): the
\* import or the first sd.rec raises (the device is not there) and listen
\* returns None at once, or the first frame is recorded and _record_audio
\* suspends at its first await
Loop_Iterate ==
    /\ ll.pc = "check"
    /\ LoopCanRun
    /\ IF ~ll.is_listening
          THEN ll' = [ll EXCEPT !.pc = "exited", !.running = "none"]
          ELSE \E broke \in BOOLEAN :
                  ll' = [ll EXCEPT
                            !.attempt = 1 - @,
                            !.rested = FALSE,
                            !.last = IF broke THEN "failed" ELSE @,
                            !.failures =
                                IF broke /\ @ < MaxFailures THEN @ + 1
                                                             ELSE @,
                            !.pc = IF ~broke THEN "capturing"
                                   ELSE IF ListenRaises(broke)
                                   THEN "backoff" ELSE "check",
                            !.running =
                                IF broke /\ ~ListenRaises(broke)
                                   THEN "loop" ELSE "none"]
    /\ UNCHANGED notLoop

\* the capture cycle is resumed and ends: sd.rec raises on a later frame,
\* the wait times out or the transcript is empty (no text: back to the
\* `while` test with no await in between), or there is a text and
\* process_input is awaited
Loop_Capture ==
    /\ ll.pc = "capturing"
    /\ ll.running = "none"
    /\ \E outcome \in {"failed", "nothing", "text"} :
          ll' = [ll EXCEPT
                    !.last = outcome,
                    !.failures =
                        IF outcome = "failed" /\ @ < MaxFailures
                           THEN @ + 1 ELSE @,
                    !.pc = CASE outcome = "text" -> "turn"
                             [] outcome = "failed"
                                  /\ ListenRaises(TRUE) -> "backoff"
                             [] OTHER -> "check",
                    !.running =
                        IF outcome = "text"
                              \/ (outcome = "failed" /\ ListenRaises(TRUE))
                           THEN "none" ELSE "loop"]
    /\ UNCHANGED notLoop

\* process_input returns, or raises out of its except handler or finally:
\* `except Exception` of start_listening, `await asyncio.sleep(0.5)`
Loop_Turn ==
    /\ ll.pc = "turn"
    /\ ll.running = "none"
    /\ \E raised \in BOOLEAN :
          ll' = [ll EXCEPT !.pc = IF raised THEN "backoff" ELSE "check",
                          !.running = IF raised THEN "none" ELSE "loop"]
    /\ UNCHANGED notLoop

\* the backoff sleep is over
Loop_Backoff ==
    /\ ll.pc = "backoff"
    /\ ll.running = "none"
    /\ ll' = [ll EXCEPT !.pc = "check", !.running = "loop",
                        !.rested = TRUE]
    /\ UNCHANGED notLoop

\* the client sends {"action": "stop_listening"}: the message waits in the
\* socket until the endpoint's receive_json is resumed
Client_Request ==
    /\ ll.stop = "none"
    /\ ll' = [ll EXCEPT !.stop = "requested"]
    /\ UNCHANGED notLoop

\* the event loop resumes the endpoint: handle_client_message awaits
\* stop_listening, which clears is_listening
Client_Stop ==
    /\ ll.stop = "requested"
    /\ ll.running = "none"
    /\ ll' = [ll EXCEPT !.stop = "handled", !.is_listening = FALSE]
    /\ UNCHANGED notLoop

LoopNext ==
    \/ Loop_Iterate
    \/ Loop_Capture
    \/ Loop_Turn
    \/ Loop_Backoff
    \/ Client_Request
    \/ Client_Stop

(***************************************************************************)
(* The tasks of start_listening.  handle_client_message creates a task for *)
(* every start_listening command and keeps no reference to it;             *)
(* stop_listening clears the flag that every such task tests at the top of *)
(* its loop.  listeners.tasks holds the tasks in the order of their        *)
(* creation, each by where it is: "created" (not yet run), "check" (at     *)
(* the `while` test), "capture" (inside an iteration), "exited".           *)
(***************************************************************************)

\* the start_listening commands one run sends
MaxStarts == 3

StartIdle == listeners = [is_listening |-> FALSE, tasks |-> <<>>]

\* {"action": "start_listening"}: asyncio.create_task(start_listening())
Start_Create ==
    /\ Len(listeners.tasks) < MaxStarts
    /\ listeners' = [listeners EXCEPT !.tasks = Append(@, "created")]
    /\ UNCHANGED notStart

\* the task runs: is_listening = True; await update_state("listening")
Start_Run(i) ==
    /\ i <= Len(listeners.tasks)
    /\ listeners.tasks[i] = "created"
    /\ listeners' = [listeners EXCEPT !.is_listening = TRUE,
                                      !.tasks[i] = "check"]
    /\ UNCHANGED notStart

\* `while self.is_listening:`
Start_Check(i) ==
    /\ i <= Len(listeners.tasks)
    /\ listeners.tasks[i] = "check"
    /\ listeners' = [listeners EXCEPT
                        !.tasks[i] = IF listeners.is_listening
                                        THEN "capture" ELSE "exited"]
    /\ UNCHANGED notStart

\* the iteration (a capture cycle, and a turn when there is a text) ends
Start_Iterated(i) ==
    /\ i <= Len(listeners.tasks)
    /\ listeners.tasks[i] = "capture"
    /\ listeners' = [listeners EXCEPT !.tasks[i] = "check"]
    /\ UNCHANGED notStart

\* {"action": "stop_listening"}: is_listening = False
Start_Stop ==
    /\ listeners' = [listeners EXCEPT !.is_listening = FALSE]
    /\ UNCHANGED notStart

StartNext ==
    \/ Start_Create
    \/ \E i \in 1..MaxStarts : Start_Run(i)
    \/ \E i \in 1..MaxStarts : Start_Check(i)
    \/ \E i \in 1..MaxStarts : Start_Iterated(i)
    \/ Start_Stop

(***************************************************************************)
(* Specifications.                                                         *)
(***************************************************************************)
Init ==
    /\ OrchInit /\ SegReset /\ CmdIdle /\ ParseIdle /\ TurnIdle /\ ActIdle
    /\ CastIdle
    /\ LoopIdle
    /\ StartIdle

Next == OrchNext

Spec == Init /\ [][Next]_vars

\* the orchestrator with collaborators that always answer: the model call,
\* synthesis and the ticker end, while nothing is promised about the end of
\* an awaited state_callback or message_callback (the observer may never
\* finish receiving)
SpecNotify ==
    /\ Init
    /\ [][Next]_vars
    /\ \A t \in Tasks :
          /\ WF_vars(PI_Model(t))
          /\ WF_vars(Speak_TtsDone(t))
          /\ WF_vars(Ticker_Run(t))
          /\ WF_vars(Ticker_Cancelled(t))
          /\ WF_vars(Speak_Join(t))

SpecSeg == Init /\ [][SegNext]_vars

SpecCmd == Init /\ [][CmdNext]_vars

SpecParse == Init /\ [][ParseNext]_vars

SpecTurn == Init /\ [][TurnNext]_vars

SpecAct == Init /\ [][ActNext]_vars

SpecCast == Init /\ [][CastNext]_vars

SpecStart == Init /\ [][StartNext]_vars

SpecLoop == Init /\ [][LoopNext]_vars

\* the event loop runs every task that is ready: the loop task goes on, and
\* the endpoint is resumed whenever the loop task is suspended again and
\* again (the ready queue is first in, first out)
SpecLoopFair ==
    /\ Init
    /\ [][LoopNext]_vars
    /\ WF_vars(Loop_Iterate)
    /\ WF_vars(Loop_Capture)
    /\ WF_vars(Loop_Turn)
    /\ WF_vars(Loop_Backoff)
    /\ SF_vars(Client_Stop)

(***************************************************************************)
(* Properties.                                                             *)
(***************************************************************************)

\* C1: whatever the memory store, the model, a command handler or synthesis
\* raises, a turn leaves process_input only through its finally block, and
\* that block sets is_processing to false and current_state to listening
\* when is_listening is set and to idle otherwise.
C1_TurnEndsSettled ==
    [][\A t \in Tasks :
          /\ (pc[t] \in TurnPcs /\ pc'[t] \notin TurnPcs) => pc[t] = "pi_fin_cb"
          /\ (pc[t] # "pi_fin_cb" /\ pc'[t] = "pi_fin_cb") =>
                /\ current_state' = FinalState(is_listening')
                /\ ~is_processing']_vars

\* a turn whose except handler's own speak() raised has run its finally
C1_Witness ==
    \E t \in Tasks : pc[t] = "pi_fin_cb" /\ in_except[t] /\ exc[t] = "error"

\* C2 as stated: across a turn that starts from a captured utterance the
\* state names emitted are exactly thinking, speaking, then listening or idle.
C2_ExactlyThreeStates ==
    \A l \in Loops :
        pc[l] = "pi_fin_cb" =>
            trace[l] \in {<<"thinking", "speaking", "listening">>,
                          <<"thinking", "speaking", "idle">>}

\* thinking twice, then speaking one or more times, then listening or idle
TurnShape(tr) ==
    /\ Len(tr) >= 4
    /\ tr[1] = "thinking"
    /\ tr[2] = "thinking"
    /\ \A i \in 3..(Len(tr) - 1) : tr[i] = "speaking"
    /\ tr[Len(tr)] \in {"listening", "idle"}

\* C2 amended: the state names the turn's task emits are thinking (speech
\* end), thinking (process_input), speaking once per speak() call and once
\* per feedback event, then listening or idle, whether or not the model
\* call failed.
C2_TurnStateSequence ==
    \A l \in Loops : pc[l] = "pi_fin_cb" => TurnShape(trace[l])

\* a turn from an utterance whose model call or storage failed has finished
C2_Witness ==
    \E l \in Loops : pc[l] = "pi_fin_cb" /\ in_except[l] /\ exc[l] = "none"

\* C3: at most one turn is between entering and leaving process_input.
C3_OneTurnAtATime ==
    Cardinality({t \in Tasks : pc[t] \in TurnPcs}) <= 1

\* C4: once a stop has returned and everything that was in flight has
\* finished (the loop has left, no message is being handled), the state is
\* idle.
C4_SettlesToIdle ==
    (stopped /\ pc[Client] = "recv" /\ \A l \in Loops : pc[l] = "none")
        => current_state = "idle"

\* C5: when an utterance was captured but transcription gave no text and
\* continuous mode is still on, the loop goes back to capturing with
\* current_state listening.
C5_NoTranscriptBackToListening ==
    [][\A l \in Loops :
          (pc[l] = "cap_end_cb" /\ pc'[l] = "check" /\ is_listening)
              => current_state' = "listening"]_vars

\* C6: speak() is left only when its ticker task has terminated, no ticker
\* exists outside a speak() call, and what leaves speak() is what synthesis
\* raised: the ticker's cancellation is neither raised to process_input nor
\* turned into an error message.
C6_TickerJoinedAndSilent ==
    /\ [](\A t \in Tasks : ticker[t] # "none" => pc[t] \in SpeakPcs)
    /\ [][\A t \in Tasks :
            (pc[t] = "sp_join" /\ pc'[t] # "sp_join") =>
                /\ ticker[t] \in {"done", "cancelled"}
                /\ IF exc[t] = "error" /\ ~in_except[t]
                      THEN pc'[t] = "pi_err_cb"
                      ELSE pc'[t] = "pi_fin_cb" /\ exc'[t] = exc[t]]_vars

\* synthesis completed and the ticker, cancelled before it ever ran, is
\* about to be joined
C6_Witness ==
    \E t \in Tasks :
        pc[t] = "sp_join" /\ ticker[t] = "cancelled" /\ exc[t] = "none"

C8_StopSeenAtNextCheck ==
    [][\A l \in Loops :
          /\ (pc[l] = "check" /\ ~is_listening) => pc'[l] \in {"check", "none"}
          /\ (pc[l] # "cap_vol" /\ pc'[l] = "cap_vol" /\ pc[l] # "cap_sleep")
                => (pc[l] = "check" /\ is_listening)
          /\ (pc[l] \in TurnPcs /\ pc'[l] # pc[l])
                => (pc'[l] \in TurnPcs \/ pc[l] = "pi_fin_cb")]_vars

\* a turn that was in flight when the stop arrived has completed
C8_Witness ==
    \E l \in Loops :
        pc[l] = "pi_fin_cb" /\ stopped /\ ~is_listening
            /\ current_state = "idle" /\ exc[l] = "none"

\* the command contains the pattern when letter case is ignored
ContainsIgnoringCase(text, pattern) ==
    \E i \in 1..(Len(text) - Len(pattern) + 1) :
        \A j \in 1..Len(pattern) :
            \/ text[i + j - 1] = pattern[j]
            \/ /\ text[i + j - 1] \in DOMAIN UpperToLower
               /\ UpperToLower[text[i + j - 1]] = pattern[j]

\* C9: in safe mode a command that contains, in any letter case, a pattern
\* of the denylist is answered with the denial naming a pattern it
\* contains, and subprocess.run is not called.
C9_SafeModeRejects ==
    (/\ cmd_result # "idle"
     /\ safe_mode
     /\ \E k \in 1..Len(dangerous_commands) :
           ContainsIgnoringCase(command, dangerous_commands[k]))
        => /\ cmd_result = "blocked"
           /\ ~os_invoked
           /\ ContainsIgnoringCase(command, blocked_by)
           /\ \E k \in 1..Len(dangerous_commands) :
                 blocked_by = dangerous_commands[k]

\* "RM -RF /" padded, in upper case, was rejected in safe mode
C9_Witness ==
    /\ cmd_result = "blocked"
    /\ safe_mode
    /\ Contains(command, <<"R", "M", " ", "-", "R", "F", " ", "/">>)

\* C10: an utterance is returned only if the speech in it, from the first
\* frame above the threshold to the last, lasts at least the minimum speech
\* duration.
C10_ShortBurstDiscarded ==
    seg_result = "audio" =>
        (Len(chunks) - silence_chunks) * chunk_duration >= min_speech_duration

\* C11: in a capture cycle whose frames all stay at or below the silence
\* threshold, no speech-started and no speech-ended event is emitted, no
\* utterance is returned, and the cycle has returned None by the time
\* max_waiting frames have been acquired.
C11_SilenceTimesOut ==
    loudest <= silence_threshold =>
        /\ speech_start_signals = 0
        /\ speech_end_signals = 0
        /\ seg_result # "audio"
        /\ frames <= max_waiting
        /\ (frames = max_waiting => seg_result = "none")
        /\ (seg_result = "recording" => waiting_chunks = frames)

\* a cycle of max_waiting frames, one of them exactly at the threshold,
\* has timed out
C11_Witness ==
    /\ loudest = silence_threshold
    /\ frames = max_waiting
    /\ seg_result = "none"
    /\ speech_start_signals = 0

\* C12: the volume-change signal has fired once for each frame acquired so
\* far in the cycle, whatever the frames' classification.
C12_VolumeSignalPerFrame ==
    volume_signals = frames

\* a cycle with waiting silence, then speech, then the closing pause
C12_Witness ==
    /\ seg_result = "audio"
    /\ frames > Len(chunks)
    /\ silence_chunks = max_silence_chunks
    /\ volume_signals = frames

\* the block of a reply written with exactly one block
OnlyBlock(p) == IF p.second = NoBlock THEN p.first ELSE p.second

HasOneBlock(p) == (p.first = NoBlock) # (p.second = NoBlock)

\* C13: for a reply with one fenced block whose text is valid JSON with an
\* "actions" list, parse returns that list, in order, and as message the
\* reply without the block (compared up to surrounding white space).
C13_FencedActionsExtracted ==
    (/\ parse_pc = "parsed"
     /\ HasOneBlock(parts)
     /\ OnlyBlock(parts).form = "fenced"
     /\ OnlyBlock(parts).body \in WithList)
        => /\ result_actions = ListOf(OnlyBlock(parts).body)
           /\ result_message = strip(Surrounding(parts))

DecodableBare == WithActions \cup {NoneSpaced, ExtraData}

NonBlocks == {NoBlock} \cup [form : {"bare"},
                             body : {Prose, Unclosed, NoActionsKey}]

\* C15: for a reply with no action block, fenced or bare, parse returns no
\* action and the reply itself, white space included, and parsing that
\* message again returns the same.
C15_NoBlockPassesThrough ==
    (/\ parse_pc \in {"parsed", "reparsed"}
     /\ parts.first \in NonBlocks
     /\ parts.second \in NonBlocks)
        => /\ response = Compose(parts)
           /\ result_actions = EmptyList
           /\ result_message = response

\* a reply that begins and ends with white space went through twice
C15_Witness ==
    /\ parse_pc = "reparsed"
    /\ parts.pre = <<"w">>
    /\ parts.first = [form |-> "bare", body |-> Prose]
    /\ parts.second = NoBlock
    /\ parts.post = <<"w">>
    /\ result_message = Compose(parts)

\* the bodies json.loads decodes
Decodes == WithList \cup {NoActionsKey}

\* C16: when the reply has a fenced block that decodes as JSON, the result
\* comes from the fenced block only: its actions (none when it lists
\* none), and the reply without the fenced block as message, whatever
\* bare text the reply also holds.
C16_FencedWins ==
    (/\ parse_pc = "parsed"
     /\ parts.first.form = "fenced"
     /\ parts.first.body \in Decodes
     /\ parts.second.form # "fenced")
        => /\ result_actions = IF parts.first.body \in WithList
                                  THEN ListOf(parts.first.body)
                                  ELSE EmptyList
           /\ result_message =
                 strip(parts.pre \o parts.mid \o BlockText(parts.second)
                         \o parts.post)

\* C17: in a turn whose model reply embeds an actions block, the actions
\* are executed before the reply is stored, shown and spoken, and what is
\* stored, shown and spoken is the reply without the block.
C17_ActionsExecutedBeforeReply ==
    (turn_pc = "done" /\ ~failed /\ turn_response = BlockReply)
        => /\ \E i \in 1..Len(steps) : steps[i] = "execute_action"
           /\ conversation_history[2].content = PlainReply
           /\ messages = <<PlainReply>>
           /\ spoken = <<PlainReply>>

\* the steps of a turn that answers through r: a handler or "model"
ExpectedSteps(r) ==
    <<"add_user", "history", r, "add_assistant", "message", "speaking",
      "tts">>

Repliers ==
    {"model"} \cup {command_handlers[k] : k \in 1..Len(command_handlers)}

\* C18: in a turn on non-blank text that has met no error, the steps taken
\* so far are the first steps of: user text stored, history fetched, reply
\* obtained, reply stored, message event, speaking state, synthesis; each
\* once; and when the turn is over all of them were taken, the reply being
\* what was stored, shown and spoken.
C18_StepsOnceInOrder ==
    (turn_pc # "idle" /\ ~failed /\ ~IsBlank(user_text))
        => \E r \in Repliers :
             /\ Len(steps) <= 7
             /\ steps = SubSeq(ExpectedSteps(r), 1, Len(steps))
             /\ turn_pc = "done" =>
                   /\ steps = ExpectedSteps(r)
                   /\ conversation_history =
                         << [role |-> "user", content |-> user_text],
                            [role |-> "assistant", content |-> turn_response] >>
                   /\ messages = <<turn_response>>
                   /\ spoken = <<turn_response>>

\* a turn answered by the model is over without error
C18_Witness ==
    /\ turn_pc = "done"
    /\ ~failed
    /\ steps = ExpectedSteps("model")
    /\ spoken = <<BlockReply>>

\* the calls of handlers and of the model among the steps
ReplyCalls == SelectSeq(steps, LAMBDA s : s \in Repliers)

\* C19: once the reply of a turn is obtained, if the text contains a command
\* keyword in any letter case the model was not called, one handler was
\* called, that of the first such keyword in the keywords' order, and the
\* reply is its result or its error text; if the text contains none, the
\* model was called once and no handler; before that point, and in a turn
\* that fails before it, nothing was called.
C19_CommandSkipsModel ==
    LET matching == {k \in 1..Len(command_keywords) :
                        ContainsIgnoringCase(user_text, command_keywords[k])}
        first    == CHOOSE k \in matching : \A j \in matching : k <= j
    IN  IF ~(Len(steps) >= 3 /\ steps[2] = "history") THEN ReplyCalls = <<>>
        ELSE IF matching # {}
             THEN /\ ReplyCalls = <<command_handlers[first]>>
                  /\ turn_response \in
                        {<<"result", command_handlers[first]>>,
                         <<"error", command_handlers[first]>>}
             ELSE /\ ReplyCalls = <<"model">>
                  /\ turn_response \in ModelReplies

\* "fechar abrir": the handler of abrir, first in the order, raised
C19_Witness ==
    /\ turn_pc = "done"
    /\ user_text = command_keywords[2] \o <<" ">> \o command_keywords[1]
    /\ turn_response = <<"error", "open_application">>
    /\ ReplyCalls = <<"open_application">>

\* C20: execute_action gives a result text for every action and never
\* raises, and when the capability failed, a null parameter included, the
\* text is that of a failure.
C20_NeverRaises ==
    act_pc = "returned" =>
        /\ act_result # "raised"
        /\ capability_failed => act_result \in {"marked", "error", "unmarked"}

ListedTransitions ==
    {<<"idle", "listening">>, <<"listening", "thinking">>,
     <<"thinking", "speaking">>, <<"speaking", "listening">>}
        \cup {<<from, "idle">> : from \in States}

\* C22: every change of current_state is one of the listed transitions:
\* idle to listening, listening to thinking, thinking to speaking, speaking
\* to listening or idle, and any state to idle.
C22_ListedTransitionsOnly ==
    [][current_state' # current_state =>
          <<current_state, current_state'>> \in ListedTransitions]_vars

\* the events are in the order their transitions occurred
InOrder(events) ==
    \A i, j \in 1..Len(events) : i < j => events[i] < events[j]

C24_TurnNotBlockedByObserver ==
    \A t \in Tasks :
        (pc[t] \in TurnPcs) ~> (pc[t] = "pi_fin_cb" \/ pc[t] \notin TurnPcs)

\* C25: after a capture attempt that failed, the listening loop starts the
\* next attempt only once the backoff sleep has run.
C25_RetryAfterBackoff ==
    [][(ll'.attempt # ll.attempt /\ ll.last = "failed") => ll.rested]_vars

\* C30: a stop_listening request made while the listening loop runs is
\* handled in the end and the loop then exits, whatever the capture
\* attempts do, failing at once every time included.
C30_StopEndsLoop ==
    (ll.stop = "requested") ~> (ll.pc = "exited")

\* the latest steps of the turn
LastSteps(n) ==
    IF Len(steps) < n THEN <<>>
    ELSE SubSeq(steps, Len(steps) - n + 1, Len(steps))

\* C26: when an exception is raised inside the try block of a turn, an
\* error message event carrying the error text is emitted, then a speaking
\* state event, then the same text is handed to synthesis, all before the
\* finally block returns the state to listening or idle.
C26_ErrorShownAndSpoken ==
    (failed /\ turn_pc \in {"finally", "done"}) =>
        /\ LastSteps(3) = <<"message", "speaking", "tts">>
        /\ messages # <<>> /\ messages[Len(messages)] = ErrorMsg
        /\ spoken # <<>> /\ spoken[Len(spoken)] = ErrorMsg

\* synthesis of the reply raised: the reply was sent and handed to
\* synthesis, then the error text was
C26_Witness ==
    /\ turn_pc = "done"
    /\ failed
    /\ messages = <<turn_response, ErrorMsg>>
    /\ spoken = <<turn_response, ErrorMsg>>

\* the start_listening tasks that have begun to run and have not returned
RunningLoops ==
    {i \in 1..Len(listeners.tasks) :
        listeners.tasks[i] \in {"check", "capture"}}

\* C27: at most one listening loop is running at any time, for every
\* sequence of start_listening and stop_listening commands.
C27_OneListeningLoop == Cardinality(RunningLoops) <= 1
\* C28: no command that contains a pattern of the denylist is handed to
\* subprocess.run on a path open to a user turn or a model-issued action:
\* the 'executar comando' keyword (run_command) or execute_action's
\* execute_command (execute_smart_command in safe mode).
C28_NoDenylistedCommandReachesShell ==
    (/\ os_invoked
     /\ (safe_mode \/ cmd_result \in RunCommandResults))
        => ~\E k \in 1..Len(dangerous_commands) :
               ContainsIgnoringCase(command, dangerous_commands[k])

\* C29: a state event carries the name current_state has when it is
\* emitted: the volume event of a recorded frame, labelled listening, is
\* emitted only while current_state is listening, and the ticker's event,
\* labelled speaking, only while current_state is speaking.
C29_EventNamesCurrentState ==
    [][/\ (\E l \in Loops : (L_Check(l) /\ is_listening) \/ L_Frame(l))
           => current_state = "listening"
       /\ (\E t \in Tasks : Ticker_Run(t) /\ is_speaking)
           => current_state = "speaking"]_vars

C32_SignalsOncePerUtterance ==
    /\ [](speech_start_signals = IF loudest > silence_threshold THEN 1 ELSE 0)
    /\ [](speech_end_signals = IF seg_result = "audio" THEN 1 ELSE 0)
    /\ [](speech_end_signals = 1 => speech_start_signals = 1)
    /\ [][\A volume \in Volumes : Seg_Frame(volume) =>
            /\ speech_start_signals' =
                  IF volume > silence_threshold /\ loudest <= silence_threshold
                     THEN speech_start_signals + 1 ELSE speech_start_signals
            /\ speech_end_signals' =
                  IF seg_result' = "audio"
                     THEN speech_end_signals + 1 ELSE speech_end_signals]_vars

\* an utterance with several frames above the threshold was returned after
\* one speech-started and one speech-ended signal
C32_Witness ==
    /\ seg_result = "audio"
    /\ speech_start_signals = 1
    /\ speech_end_signals = 1
    /\ Cardinality({i \in 1..Len(chunks) : IsSpeech(chunks[i])}) >= 2

\* C33: the ticker of a turn emits a feedback event only while that turn
\* is inside speak() awaiting the synthesis: after the turn's speaking
\* state event, which is then the latest event of the turn, and before
\* speak() has returned and the turn's listening or idle event.
C33_FeedbackInsideSpeak ==
    [][\A t \in Tasks :
          (Ticker_Run(t) /\ is_speaking) =>
             /\ pc[t] = "sp_tts"
             /\ t \in Loops =>
                   /\ trace[t] # <<>>
                   /\ trace[t][Len(trace[t])] = "speaking"]_vars

\* a listening task's turn is awaiting the synthesis and its ticker has
\* emitted a feedback event after the turn's speaking event
C33_Witness ==
    \E l \in Loops :
        /\ pc[l] = "sp_tts"
        /\ ticker[l] = "sleeping"
        /\ Len(trace[l]) >= 3
        /\ trace[l][Len(trace[l])] = "speaking"
        /\ trace[l][Len(trace[l]) - 1] = "speaking"

\* C34: process_input on an empty or blank text changes nothing: the step
\* that takes the text leaves current_state, is_processing, the memory, the
\* state and message events and what was spoken as they were and ends the
\* turn; no step of a turn (storing, model, handler, synthesis) is taken.
C34_BlankTextChangesNothing ==
    /\ [][(turn_pc = "idle" /\ turn_pc' # "idle" /\ IsBlank(user_text')) =>
            /\ turn_pc' = "done"
            /\ UNCHANGED <<current_state, is_processing, trace,
                           conversation_history, messages, spoken, steps,
                           turn_response, failed>>]_vars
    /\ []((turn_pc # "idle" /\ IsBlank(user_text)) =>
            /\ turn_pc = "done"
            /\ steps = <<>>
            /\ trace[Client] = <<>>
            /\ messages = <<>>
            /\ spoken = <<>>
            /\ conversation_history = <<>>
            /\ ~is_processing)

\* a turn on a text of two blanks is over and has taken no step
C34_Witness ==
    /\ turn_pc = "done"
    /\ user_text = <<" ", " ">>
    /\ steps = <<>>
    /\ current_state = "idle"

====
